---- MODULE Spec2Model ----
(***************************************************************************)
(* A model of av-getquote.py, a command-line client of the Alpha Vantage   *)
(* web API: the request gateway, the four accessors, the table and chart   *)
(* renderers and the dispatcher main().                                    *)
(*                                                                         *)
(* Python values are modelled as tagged records: None is [t |-> "None"],   *)
(* a dict is [t |-> "dict", v |-> f] with f a function whose DOMAIN is the *)
(* key set, a str result is [t |-> "str", v |-> s].  Strings the code      *)
(* inspects character by character (the "Information" text, news titles)   *)
(* are sequences of one-character strings; strings it only compares or     *)
(* passes on are TLA+ strings.                                             *)
(*                                                                         *)
(* The input domain is the API's documented data model: a response body is *)
(* either not JSON at all or a JSON object; any key may be absent and any  *)
(* sequence may be empty; a value that is present has its documented type. *)
(* A body that is not JSON makes response.json() raise the JSONDecodeError *)
(* of requests, which is a RequestException.                               *)
(***************************************************************************)
EXTENDS Integers, Sequences, FiniteSets, TLC

VARIABLES
  pc,     \* position of the operation under study
  args,   \* the parsed command line of main()
  net,    \* the outcome of the HTTP GET the gateway is about to see / last saw
  data,   \* what the gateway returned: the payload handed to a renderer
  ret,    \* the value returned by the operation
  exc,    \* the exception that left the operation ("" when none)
  out,    \* what was requested, printed, rendered or plotted, in order
  reqs,   \* the HTTP GETs issued, in order
  executed_action   \* the local of main() of that name

vars == <<pc, args, net, data, ret, exc, out, reqs, executed_action>>

-----------------------------------------------------------------------------
(* Bounds *)

MaxPad == 1      \* longest text around the notice in an "Information" string
MaxRecs == 2     \* longest movers list
MaxFeed == 3     \* longest news feed
MaxSeries == 3   \* longest commodity series

-----------------------------------------------------------------------------
(* Python values *)

PyNone == [t |-> "None"]
PyDict(f) == [t |-> "dict", v |-> f]
PyStr(s) == [t |-> "str", v |-> s]
EmptyDict == [k \in {} |-> 0]
NoExc == ""

\* bool(x) for the values above
Truthy(x) ==
  CASE x.t = "None" -> FALSE
    [] x.t = "dict" -> DOMAIN x.v # {}
    [] x.t = "str" -> x.v # ""
    [] OTHER -> TRUE

\* what reaches the terminal: a printed line, a rendered table, a chart
Msg(m) == [kind |-> "print", ev |-> m, rows |-> <<>>]
Printed(m, values) == [kind |-> "print", ev |-> m, rows |-> values]
GetEvent(function_name) == [kind |-> "get", ev |-> function_name, rows |-> <<>>]
Table(title, rows) == [kind |-> "table", ev |-> title, rows |-> rows]
Plot(points) == [kind |-> "plot", ev |-> "Global Copper Price (Monthly)", rows |-> points]

\* the outcome of a renderer: what it emitted and the exception that ended it
Done(o) == [out |-> o, exc |-> NoExc]
Fail(e) == [out |-> <<>>, exc |-> e]
\* r, and then s unless r raised
Then(r, s) == IF r.exc # NoExc THEN r ELSE [out |-> r.out \o s.out, exc |-> s.exc]

NoArgs == [symbol |-> PyNone, top |-> FALSE, news |-> FALSE, copper |-> FALSE]
NoNet == [transport |-> TRUE, status |-> 0, valid |-> FALSE, data |-> EmptyDict]

RECURSIVE SeqsUpTo(_, _)
SeqsUpTo(S, n) ==
  IF n = 0 THEN {<<>>}
  ELSE LET shorter == SeqsUpTo(S, n - 1)
       IN shorter \cup {Append(s, x) : s \in {q \in shorter : Len(q) = n - 1}, x \in S}

Reverse(s) == [i \in 1..Len(s) |-> s[Len(s) + 1 - i]]

-----------------------------------------------------------------------------
(* str.lower() and the substring test `in` *)

Uppers == <<"R", "A", "T", "E", "L", "I", "M", "F", "N", "X">>
Lowers == <<"r", "a", "t", "e", "l", "i", "m", "f", "n", "x">>

LowerChar(c) ==
  IF \E i \in DOMAIN Uppers : Uppers[i] = c
  THEN Lowers[CHOOSE i \in DOMAIN Uppers : Uppers[i] = c]
  ELSE c

UpperChar(c) ==
  IF \E i \in DOMAIN Lowers : Lowers[i] = c
  THEN Uppers[CHOOSE i \in DOMAIN Lowers : Lowers[i] = c]
  ELSE c

lower(s) == [i \in 1..Len(s) |-> LowerChar(s[i])]

Contains(s, sub) ==
  \E i \in 0..(Len(s) - Len(sub)) : SubSeq(s, i + 1, i + Len(sub)) = sub

RateLimit == <<"r", "a", "t", "e", " ", "l", "i", "m", "i", "t">>

-----------------------------------------------------------------------------
(* The gateway: _make_alpha_vantage_request *)

raise_for_status_4xx_only(status) == 400 <= status /\ status < 500

\* response.raise_for_status(): HTTPError for 4xx and 5xx
raise_for_status(status) == 400 <= status /\ status < 600

IsRateLimitNotice_CaseSensitive(d) ==
  "Information" \in DOMAIN d /\ Contains(d["Information"], RateLimit)

IsRateLimitNotice(d) ==
  "Information" \in DOMAIN d /\ Contains(lower(d["Information"]), RateLimit)

Request(function_name, kwargs) ==
  [function |-> function_name, apikey |-> "ALPHAVANTAGE_API_KEY", params |-> kwargs]

RequestError == "Error making API request"
RateLimitExceeded == "Alpha Vantage API Rate Limit Exceeded"

\* the except clause: every RequestException is logged and becomes None
RequestFailed(rq) == [ret |-> PyNone, out |-> <<Msg(RequestError)>>, reqs |-> <<rq>>]

\* o is what the one requests.get produces: a transport failure, or a
\* response with a status and a body that is valid JSON or not.
_make_alpha_vantage_request(function_name, kwargs, o) ==
  LET rq == Request(function_name, kwargs) IN
  IF o.transport THEN RequestFailed(rq)
  ELSE IF raise_for_status(o.status) THEN RequestFailed(rq)
  ELSE IF ~o.valid THEN RequestFailed(rq)
  ELSE IF IsRateLimitNotice(o.data) THEN
    [ret |-> PyNone, out |-> <<Msg(RateLimitExceeded)>>, reqs |-> <<rq>>]
  ELSE [ret |-> PyDict(o.data), out |-> <<>>, reqs |-> <<rq>>]

-----------------------------------------------------------------------------
(* Inputs of the gateway *)

Statuses == {200, 300, 404, 503}

CaseVariants(w) ==
  {[i \in 1..Len(w) |-> IF i \in U THEN UpperChar(w[i]) ELSE w[i]] :
     U \in SUBSET (1..Len(w))}

NearMisses ==
  { <<>>,
    <<"r", "a", "t", "e", "l", "i", "m", "i", "t">>,
    <<"r", "a", "t", "e", " ", " ", "l", "i", "m", "i", "t">>,
    <<"R", "A", "T", "E", " ", "L", "I", "M", "I">>,
    <<"l", "i", "m", "i", "t", " ", "r", "a", "t", "e">>,
    <<"t", "h", "a", "n", "k", " ", "y", "o", "u">> }

Pads == SeqsUpTo({"x"}, MaxPad)

InformationTexts ==
  {p \o c \o q : p \in Pads, q \in Pads, c \in CaseVariants(RateLimit) \cup NearMisses}

SampleQuote == [k \in {"01. symbol", "05. price"} |->
                  IF k = "01. symbol" THEN "IBM" ELSE "189.9500"]

\* a body with or without an "Information" text, with or without a payload
GatewayBodies ==
  {[k \in {"Global Quote"} |-> SampleQuote], EmptyDict}
  \cup {[k \in {"Information"} |-> i] : i \in InformationTexts}
  \cup {[k \in {"Information", "Global Quote"} |->
           IF k = "Information" THEN i ELSE SampleQuote] : i \in InformationTexts}

Responses(bodies) ==
  {[transport |-> FALSE, status |-> s, valid |-> TRUE, data |-> b] :
     s \in Statuses, b \in bodies}
  \cup {[transport |-> FALSE, status |-> s, valid |-> FALSE, data |-> EmptyDict] :
          s \in Statuses}

Outcomes(bodies) == {NoNet} \cup Responses(bodies)

Functions == {"GLOBAL_QUOTE", "TOP_GAINERS_LOSERS", "NEWS_SENTIMENT", "COPPER"}

-----------------------------------------------------------------------------
(* Specification of one gateway call *)

InitGateway ==
  /\ pc = "gateway"
  /\ args = NoArgs
  /\ net \in Outcomes(GatewayBodies)
  /\ data = PyNone
  /\ ret = PyNone
  /\ exc = NoExc
  /\ out = <<>>
  /\ reqs = <<>>
  /\ executed_action = FALSE

CallGateway ==
  /\ pc = "gateway"
  /\ \E f \in Functions :
       LET r == _make_alpha_vantage_request(f, EmptyDict, net) IN
       /\ ret' = r.ret
       /\ out' = r.out
       /\ reqs' = r.reqs
  /\ pc' = "done"
  /\ UNCHANGED <<args, net, data, exc, executed_action>>

NextGateway == CallGateway

SpecGateway == InitGateway /\ [][NextGateway]_vars

\* What the claims call a rate-limit notice, stated without str.lower():
\* somewhere in the text stand the letters of "rate limit", each one in
\* either case.
HasNoticeAnyCase(d) ==
  /\ "Information" \in DOMAIN d
  /\ LET s == d["Information"] IN
     \E i \in 0..(Len(s) - Len(RateLimit)) :
       \A j \in 1..Len(RateLimit) :
         s[i + j] \in {RateLimit[j], UpperChar(RateLimit[j])}

ParsedBody == ~net.transport /\ net.valid

\* C1: a response whose JSON body has an "Information" field containing
\* "rate limit" in any letter case makes the gateway return None, whatever
\* the HTTP status; the payload is not returned.
C1_RateLimitReturnsNone ==
  (pc = "done" /\ ParsedBody /\ HasNoticeAnyCase(net.data))
    => (ret = PyNone /\ exc = NoExc)

C1_Witness ==
  /\ pc = "done"
  /\ ParsedBody
  /\ net.status = 200
  /\ DOMAIN net.data = {"Information", "Global Quote"}
  /\ HasNoticeAnyCase(net.data)
  /\ ~Contains(net.data["Information"], RateLimit)
  /\ ret = PyNone

FailedQuietly == ret = PyNone /\ exc = NoExc /\ Len(out) = 1

\* C2 as stated: one GET per call; a transport failure or a status outside
\* the success range 2xx gives a logged None and no exception; a success
\* status with a body that is not a rate-limit notice gives the parsed body.
C2_Original ==
  pc = "done" =>
    /\ Len(reqs) = 1
    /\ (net.transport \/ net.status \notin 200..299) => FailedQuietly
    /\ (ParsedBody /\ net.status \in 200..299 /\ ~HasNoticeAnyCase(net.data))
         => (ret = PyDict(net.data) /\ exc = NoExc)

\* C2 amended: one GET per call; a transport failure or a status in the
\* error range 4xx/5xx gives a logged None and no exception; any other
\* status with a parsed body that is not a rate-limit notice gives the
\* parsed body unchanged.
C2_OneGetFailuresReturnNone ==
  pc = "done" =>
    /\ Len(reqs) = 1
    /\ (net.transport \/ net.status \in 400..599) => FailedQuietly
    /\ (ParsedBody /\ net.status \notin 400..599 /\ ~HasNoticeAnyCase(net.data))
         => (ret = PyDict(net.data) /\ exc = NoExc)

C2_Witness ==
  /\ pc = "done"
  /\ ParsedBody
  /\ net.status = 503
  /\ "Global Quote" \in DOMAIN net.data
  /\ ~HasNoticeAnyCase(net.data)
  /\ FailedQuietly
  /\ Len(reqs) = 1

-----------------------------------------------------------------------------
(* The quote accessor: get_stock_price *)

get_stock_price_falsy_price(symbol, o) ==
  LET g == _make_alpha_vantage_request("GLOBAL_QUOTE", [k \in {"symbol"} |-> symbol], o)
      d == g.ret
  IN IF /\ Truthy(d)
        /\ "Global Quote" \in DOMAIN d.v
        /\ "05. price" \in DOMAIN d.v["Global Quote"]
        /\ d.v["Global Quote"]["05. price"] # ""
     THEN [g EXCEPT !.ret = PyStr(d.v["Global Quote"]["05. price"])]
     ELSE [g EXCEPT !.ret = PyNone]

get_stock_price(symbol, o) ==
  LET g == _make_alpha_vantage_request("GLOBAL_QUOTE", [k \in {"symbol"} |-> symbol], o)
      d == g.ret
  IN IF /\ Truthy(d)
        /\ "Global Quote" \in DOMAIN d.v
        /\ "05. price" \in DOMAIN d.v["Global Quote"]
     THEN [g EXCEPT !.ret = PyStr(d.v["Global Quote"]["05. price"])]
     ELSE [g EXCEPT !.ret = PyNone]

Symbols == {"IBM", "AAPL"}
Prices == {"189.9500", "0.0000", ""}

GlobalQuotes ==
  {EmptyDict, [k \in {"01. symbol"} |-> "IBM"]}
  \cup {[k \in {"05. price"} |-> p] : p \in Prices}
  \cup {[k \in {"01. symbol", "05. price"} |-> IF k = "01. symbol" THEN "IBM" ELSE p] :
          p \in Prices}

SampleNotice == <<"R", "a", "t", "e", " ", "L", "i", "m", "i", "t">>
SampleInformation == <<"t", "h", "a", "n", "k", " ", "y", "o", "u">>

QuoteBodies ==
  {EmptyDict}
  \cup {[k \in {"Information"} |-> i] : i \in {SampleNotice, SampleInformation}}
  \cup {[k \in {"Global Quote"} |-> q] : q \in GlobalQuotes}
  \cup {[k \in {"Information", "Global Quote"} |-> IF k = "Information" THEN i ELSE q] :
          i \in {SampleNotice, SampleInformation}, q \in GlobalQuotes}

InitQuote ==
  /\ pc = "quote"
  /\ args \in {[NoArgs EXCEPT !.symbol = PyStr(s)] : s \in Symbols}
  /\ net \in Outcomes(QuoteBodies)
  /\ data = PyNone
  /\ ret = PyNone
  /\ exc = NoExc
  /\ out = <<>>
  /\ reqs = <<>>
  /\ executed_action = FALSE

\* `data` records what the gateway handed to get_stock_price
CallQuote ==
  /\ pc = "quote"
  /\ LET r == get_stock_price(args.symbol.v, net) IN
       /\ ret' = r.ret
       /\ out' = r.out
       /\ reqs' = r.reqs
  /\ data' = _make_alpha_vantage_request("GLOBAL_QUOTE", EmptyDict, net).ret
  /\ pc' = "done"
  /\ UNCHANGED <<args, net, exc, executed_action>>

NextQuote == CallQuote

SpecQuote == InitQuote /\ [][NextQuote]_vars

HasPriceField(g) ==
  /\ g.t = "dict"
  /\ "Global Quote" \in DOMAIN g.v
  /\ "05. price" \in DOMAIN g.v["Global Quote"]

\* C3: get_stock_price returns exactly the string at Global Quote /
\* "05. price" of the gateway result when both the outer object and the key
\* are there; when the gateway returned None, or the outer object or the key
\* is missing, it returns None and raises nothing.
C3_PriceOrNone ==
  pc = "done" =>
    /\ exc = NoExc
    /\ HasPriceField(data) => ret = PyStr(data.v["Global Quote"]["05. price"])
    /\ ~HasPriceField(data) => ret = PyNone

C3_Witness ==
  /\ pc = "done"
  /\ HasPriceField(data)
  /\ "Information" \in DOMAIN data.v
  /\ ret = PyStr("")

-----------------------------------------------------------------------------
(* The movers renderer: display_gainers_losers_table *)

\* One category: the headers are the keys of the first record; a record that
\* lacks one of them ends the rendering with KeyError before the table is
\* printed.
RenderCategory(d, key, title, notice) ==
  IF key \in DOMAIN d /\ d[key] # <<>>
  THEN LET headers == DOMAIN d[key][1] IN
       IF \E i \in 1..Len(d[key]) : ~(headers \subseteq DOMAIN d[key][i])
       THEN Fail("KeyError")
       ELSE Done(<<Table(title,
                         [i \in 1..Len(d[key]) |-> [h \in headers |-> d[key][i][h]]])>>)
  ELSE Done(<<Msg(notice)>>)

NoGainers == "No top gainers data available."
NoLosers == "No top losers data available."
NoActive == "No most actively traded data available."
MoversError == "Error: Could not retrieve gainers/losers data."

display_gainers_losers_table_not_none(d) ==
  IF d.t # "None"
  THEN Then(RenderCategory(d.v, "top_gainers", "Top Gainers", NoGainers),
       Then(Done(<<Msg("\n")>>),
       Then(RenderCategory(d.v, "top_losers", "Top Losers", NoLosers),
            RenderCategory(d.v, "most_actively_traded", "Most Actively Traded", NoActive))))
  ELSE Done(<<Msg(MoversError)>>)

display_gainers_losers_table(d) ==
  IF Truthy(d)
  THEN Then(RenderCategory(d.v, "top_gainers", "Top Gainers", NoGainers),
       Then(Done(<<Msg("\n")>>),
       Then(RenderCategory(d.v, "top_losers", "Top Losers", NoLosers),
            RenderCategory(d.v, "most_actively_traded", "Most Actively Traded", NoActive))))
  ELSE Done(<<Msg(MoversError)>>)

Categories == <<"top_gainers", "top_losers", "most_actively_traded">>
Titles == <<"Top Gainers", "Top Losers", "Most Actively Traded">>
Notices == <<NoGainers, NoLosers, NoActive>>

MoverRecords ==
  { [k \in {"ticker", "price"} |-> IF k = "ticker" THEN "IBM" ELSE "189.95"],
    [k \in {"ticker"} |-> "AAPL"],
    EmptyDict }

MoverLists(n) == SeqsUpTo(MoverRecords, n)

\* movers payloads with any subset of the three category keys
MoversBodies(n) ==
  UNION {[K -> MoverLists(n)] : K \in SUBSET {Categories[i] : i \in 1..3}}

InitMovers ==
  /\ pc = "movers"
  /\ args = NoArgs
  /\ net = NoNet
  /\ data \in {PyNone} \cup {PyDict(b) : b \in MoversBodies(MaxRecs)}
  /\ ret = PyNone
  /\ exc = NoExc
  /\ out = <<>>
  /\ reqs = <<>>
  /\ executed_action = FALSE

CallMovers ==
  /\ pc = "movers"
  /\ LET r == display_gainers_losers_table(data) IN
       /\ out' = r.out
       /\ exc' = r.exc
  /\ pc' = "done"
  /\ UNCHANGED <<args, net, data, ret, reqs, executed_action>>

NextMovers == CallMovers

SpecMovers == InitMovers /\ [][NextMovers]_vars

EmptyOrAbsent(d, key) == key \notin DOMAIN d \/ d[key] = <<>>

Emitted(kind, ev) == \E i \in 1..Len(out) : out[i].kind = kind /\ out[i].ev = ev

NoticeNoTable(i) == Emitted("print", Notices[i]) /\ ~Emitted("table", Titles[i])

\* C4 as stated: for every movers payload, the one with no keys included, a
\* category whose key is absent or whose list is empty gets its "no data"
\* notice and no table, each category independently of the others.
C4_Original ==
  (pc = "done" /\ data.t = "dict") =>
    \A i \in 1..3 : EmptyOrAbsent(data.v, Categories[i]) => NoticeNoTable(i)

\* a list with a record that lacks a column of the list's first record
Malformed(d, key) ==
  /\ ~EmptyOrAbsent(d, key)
  /\ \E i \in 1..Len(d[key]) : ~(DOMAIN d[key][1] \subseteq DOMAIN d[key][i])

\* C4 amended: for every movers payload with at least one key, a category
\* whose key is absent or whose list is empty gets its "no data" notice and
\* no table, provided no earlier category holds a record lacking a column of
\* its first record; the payload with no keys gets the one error message.
C4_EmptyCategoryNotice ==
  (pc = "done" /\ data.t = "dict") =>
    IF DOMAIN data.v = {}
    THEN out = <<Msg(MoversError)>> /\ exc = NoExc
    ELSE \A i \in 1..3 :
           (/\ EmptyOrAbsent(data.v, Categories[i])
            /\ \A j \in 1..(i - 1) : ~Malformed(data.v, Categories[j]))
             => NoticeNoTable(i)

C4_Witness ==
  /\ pc = "done"
  /\ data.t = "dict"
  /\ DOMAIN data.v = {"top_gainers", "top_losers"}
  /\ data.v["top_gainers"] = <<>>
  /\ Len(data.v["top_losers"]) = 2
  /\ NoticeNoTable(1)
  /\ Emitted("table", "Top Losers")
  /\ NoticeNoTable(3)

-----------------------------------------------------------------------------
(* The news renderer: display_market_news *)

\* str.split(): the maximal runs of non-whitespace characters
RECURSIVE SplitFrom(_, _, _)
SplitFrom(s, cur, acc) ==
  IF s = <<>> THEN (IF cur = <<>> THEN acc ELSE Append(acc, cur))
  ELSE IF Head(s) = " "
       THEN SplitFrom(Tail(s), <<>>, IF cur = <<>> THEN acc ELSE Append(acc, cur))
       ELSE SplitFrom(Tail(s), Append(cur, Head(s)), acc)

split(s) == SplitFrom(s, <<>>, <<>>)

SignatureWords == 5

\* s[:n]
Take(s, n) == SubSeq(s, 1, IF Len(s) < n THEN Len(s) ELSE n)

NA == <<"N", "/", "A">>

\* article.get(key, "N/A")
Get(article, key) == IF key \in DOMAIN article THEN article[key] ELSE NA

\* title.lower().split()[:5]
TitleWords(title) == Take(split(lower(title)), SignatureWords)

Row(article) ==
  [title |-> Get(article, "title"), url |-> Get(article, "url"),
   source |-> Get(article, "source"), time_published |-> Get(article, "time_published")]

\* the loop of lines 63-79 from article i on, with the remembered words and
\* the rows added so far
RECURSIVE NewsLoop(_, _, _, _)
NewsLoop(feed, i, previous_title_words, rows) ==
  IF i > Len(feed) THEN rows
  ELSE LET current_title_words == TitleWords(Get(feed[i], "title")) IN
       IF current_title_words = previous_title_words
       THEN NewsLoop(feed, i + 1, previous_title_words, rows)
       ELSE NewsLoop(feed, i + 1, current_title_words, Append(rows, Row(feed[i])))

\* a loop that never forgets a signature it has emitted
RECURSIVE NewsLoop_GlobalDedup(_, _, _, _)
NewsLoop_GlobalDedup(feed, i, seen, rows) ==
  IF i > Len(feed) THEN rows
  ELSE LET current_title_words == TitleWords(Get(feed[i], "title")) IN
       IF current_title_words \in (seen \cup {<<>>})
       THEN NewsLoop_GlobalDedup(feed, i + 1, seen, rows)
       ELSE NewsLoop_GlobalDedup(feed, i + 1, seen \cup {current_title_words},
                                 Append(rows, Row(feed[i])))

NewsRows_GlobalDedup(feed) == NewsLoop_GlobalDedup(feed, 1, {}, <<>>)

NewsRows(feed) == NewsLoop(feed, 1, <<>>, <<>>)

NewsTitle == "Market News & Sentiment"
NoNews == "No market news data available."

\* `"feed" in data` raises TypeError when data is None
display_market_news(d) ==
  IF d.t = "None" THEN Fail("TypeError")
  ELSE IF "feed" \in DOMAIN d.v /\ d.v["feed"] # <<>>
       THEN Done(<<Table(NewsTitle, NewsRows(d.v["feed"]))>>)
       ELSE Done(<<Msg(NoNews)>>)

\* Titles of one-letter and two-letter words.  The first stands for "Fed
\* Raises Interest Rates Again Today", the second for "... Again Now", the
\* third for "Markets React To Decision".
SampleTitles ==
  { <<"F", "e", " ", "R", " ", "I", " ", "R", " ", "A", " ", "T">>,
    <<"F", "e", " ", "R", " ", "I", " ", "R", " ", "A", " ", "N">>,
    <<"M", " ", "R", " ", "T", "x">>,
    <<"f", "E", " ", "r", " ", "i", " ", "r", " ", "a">>,
    <<"F", "e", " ", "R", " ", "I", " ", "R", " ", "E", " ", "T">>,
    <<" ", "m", " ", " ", "r", " ", "t", "X", " ">>,
    <<"n", "/", "a">>,
    <<>>,
    <<" ", " ">> }

\* the i-th article: its url tells it from the others, its title may be
\* missing, its time_published is missing
Article(i, title) ==
  IF title = <<"missing">>
  THEN [k \in {"url", "source"} |-> IF k = "url" THEN <<"u", i>> ELSE <<"s">>]
  ELSE [k \in {"title", "url", "source"} |->
          IF k = "title" THEN title ELSE IF k = "url" THEN <<"u", i>> ELSE <<"s">>]

Feeds(n) ==
  {[i \in 1..Len(ts) |-> Article(i, ts[i])] :
     ts \in SeqsUpTo(SampleTitles \cup {<<"missing">>}, n)}

NewsBodies(n) == {EmptyDict} \cup {[k \in {"feed"} |-> f] : f \in Feeds(n)}

InitNews ==
  /\ pc = "news"
  /\ args = NoArgs
  /\ net = NoNet
  /\ data \in {PyNone} \cup {PyDict(b) : b \in NewsBodies(MaxFeed)}
  /\ ret = PyNone
  /\ exc = NoExc
  /\ out = <<>>
  /\ reqs = <<>>
  /\ executed_action = FALSE

CallNews ==
  /\ pc = "news"
  /\ LET r == display_market_news(data) IN
       /\ out' = r.out
       /\ exc' = r.exc
  /\ pc' = "done"
  /\ UNCHANGED <<args, net, data, ret, reqs, executed_action>>

NextNews == CallNews

SpecNews == InitNews /\ [][NextNews]_vars

NonEmptyFeed == data.t = "dict" /\ "feed" \in DOMAIN data.v /\ data.v["feed"] # <<>>

TheFeed == data.v["feed"]

\* the signature of the claims, stated on the article
Sig(a) == TitleWords(Get(a, "title"))

\* The indices the rule of C5 keeps: article i is dropped exactly when an
\* article was kept before it and the last one kept has its signature.
RECURSIVE KeptByRule(_, _, _)
KeptByRule(feed, i, kept) ==
  IF i > Len(feed) THEN kept
  ELSE IF kept # <<>> /\ Sig(feed[kept[Len(kept)]]) = Sig(feed[i])
       THEN KeptByRule(feed, i + 1, kept)
       ELSE KeptByRule(feed, i + 1, Append(kept, i))

RowsOf(feed, kept) == [j \in 1..Len(kept) |-> Row(feed[kept[j]])]

\* C5 as stated: for a non-empty feed the table holds, in feed order, the
\* records that remain when a record is dropped exactly if its signature
\* equals the signature of the record emitted just before it.
C5_Original ==
  (pc = "done" /\ NonEmptyFeed) =>
    /\ exc = NoExc
    /\ out = <<Table(NewsTitle, RowsOf(TheFeed, KeptByRule(TheFeed, 1, <<>>)))>>

\* C9 as stated: the first record of a non-empty feed is always emitted,
\* whatever its title, so the table has at least one row.
C9_Original ==
  (pc = "done" /\ NonEmptyFeed) =>
    /\ Len(out) = 1
    /\ out[1].kind = "table"
    /\ Len(out[1].rows) >= 1
    /\ out[1].rows[1] = Row(TheFeed[1])

\* the loop that remembers the signature of every record it has seen,
\* skipped or not
RECURSIVE SeenLoop(_, _, _, _)
SeenLoop(feed, i, previous, rows) ==
  IF i > Len(feed) THEN rows
  ELSE SeenLoop(feed, i + 1, Sig(feed[i]),
                IF Sig(feed[i]) = previous THEN rows ELSE Append(rows, Row(feed[i])))

\* C10: remembering the signature of the previously emitted record gives the
\* same rows, in the same order, as remembering the signature of the
\* previously seen record.
C10_EmittedEqualsSeen ==
  (pc = "done" /\ NonEmptyFeed) =>
    /\ exc = NoExc
    /\ out = <<Table(NewsTitle, SeenLoop(TheFeed, 1, <<>>, <<>>))>>

\* a feed A, A', B, A with A' a duplicate of A: one record skipped, and the
\* signature of A returning after B
C10_Witness ==
  /\ pc = "done"
  /\ NonEmptyFeed
  /\ Len(TheFeed) = 3
  /\ Sig(TheFeed[1]) = Sig(TheFeed[2])
  /\ Get(TheFeed[1], "title") # Get(TheFeed[2], "title")
  /\ Sig(TheFeed[3]) # Sig(TheFeed[2])
  /\ Len(Sig(TheFeed[1])) = SignatureWords
  /\ Len(out[1].rows) = 2

-----------------------------------------------------------------------------
(* The chart renderer: plot_copper_price *)

\* datetime.strptime(s, "%Y-%m-%d"): a date, or ValueError
ValidDates == {"2024-03-01", "2024-01-01"}
strptime(s) ==
  CASE s = "2024-03-01" -> <<2024, 3, 1>>
    [] s = "2024-01-01" -> <<2024, 1, 1>>

\* float(s), in tenths: a number, or ValueError
ValidFloats == {"9.5", "9.0"}
float(s) ==
  CASE s = "9.5" -> 95
    [] s = "9.0" -> 90

\* the condition of both comprehensions
HasValue(item) == "value" \in DOMAIN item /\ item["value"] # "."

Filtered(series) == SelectSeq(series, HasValue)

\* the exception of the first comprehension, then of the second, if any
ComprehensionError(kept) ==
  IF \E i \in 1..Len(kept) : "date" \notin DOMAIN kept[i] \/ kept[i]["date"] \notin ValidDates
  THEN LET i == CHOOSE i \in 1..Len(kept) :
                  /\ "date" \notin DOMAIN kept[i] \/ kept[i]["date"] \notin ValidDates
                  /\ \A j \in 1..(i - 1) :
                       "date" \in DOMAIN kept[j] /\ kept[j]["date"] \in ValidDates
       IN IF "date" \notin DOMAIN kept[i] THEN "KeyError" ELSE "ValueError"
  ELSE IF \E i \in 1..Len(kept) : kept[i]["value"] \notin ValidFloats
       THEN "ValueError"
       ELSE NoExc

NoCopper == "No copper price data to plot."

plot_copper_price_prices_not_reversed(d) ==
  IF d.t = "None" THEN Fail("TypeError")
  ELSE IF "data" \in DOMAIN d.v
  THEN LET kept == Filtered(d.v["data"]) IN
       IF ComprehensionError(kept) # NoExc THEN Fail(ComprehensionError(kept))
       ELSE LET dates == [i \in 1..Len(kept) |-> strptime(kept[i]["date"])]
                prices == [i \in 1..Len(kept) |-> float(kept[i]["value"])]
            IN Done(<<Plot(<<Reverse(dates), prices>>)>>)
  ELSE Done(<<Msg(NoCopper)>>)

\* `"data" in data` raises TypeError when data is None
plot_copper_price(d) ==
  IF d.t = "None" THEN Fail("TypeError")
  ELSE IF "data" \in DOMAIN d.v
  THEN LET kept == Filtered(d.v["data"]) IN
       IF ComprehensionError(kept) # NoExc THEN Fail(ComprehensionError(kept))
       ELSE LET dates == [i \in 1..Len(kept) |-> strptime(kept[i]["date"])]
                prices == [i \in 1..Len(kept) |-> float(kept[i]["value"])]
            IN Done(<<Plot(<<Reverse(dates), Reverse(prices)>>)>>)
  ELSE Done(<<Msg(NoCopper)>>)

DateStrings == ValidDates \cup {"03/01/2024"}
ValueStrings == ValidFloats \cup {".", "n/a"}

SeriesItems ==
  {EmptyDict}
  \cup {[k \in {"date"} |-> dt] : dt \in DateStrings}
  \cup {[k \in {"value"} |-> v] : v \in ValueStrings}
  \cup {[k \in {"date", "value"} |-> IF k = "date" THEN dt ELSE v] :
          dt \in DateStrings, v \in ValueStrings}

CopperBodies(n) ==
  {EmptyDict} \cup {[k \in {"data"} |-> ser] : ser \in SeqsUpTo(SeriesItems, n)}

InitCopper ==
  /\ pc = "copper"
  /\ args = NoArgs
  /\ net = NoNet
  /\ data \in {PyNone} \cup {PyDict(b) : b \in CopperBodies(MaxSeries)}
  /\ ret = PyNone
  /\ exc = NoExc
  /\ out = <<>>
  /\ reqs = <<>>
  /\ executed_action = FALSE

CallCopper ==
  /\ pc = "copper"
  /\ LET r == plot_copper_price(data) IN
       /\ out' = r.out
       /\ exc' = r.exc
  /\ pc' = "done"
  /\ UNCHANGED <<args, net, data, ret, reqs, executed_action>>

NextCopper == CallCopper

SpecCopper == InitCopper /\ [][NextCopper]_vars

HasSeries == data.t = "dict" /\ "data" \in DOMAIN data.v

\* the input indices of the entries that carry a value other than ".",
\* last entry first
RECURSIVE PlottedIndices(_, _)
PlottedIndices(series, i) ==
  IF i = 0 THEN <<>>
  ELSE IF "value" \in DOMAIN series[i] /\ series[i]["value"] # "."
       THEN <<i>> \o PlottedIndices(series, i - 1)
       ELSE PlottedIndices(series, i - 1)

\* C6: what is plotted for a payload with a "data" series is the reverse of
\* the series restricted to the entries whose value is not ".": the two
\* lists are equally long and the i-th date and the i-th price are those of
\* the same input entry; when an entry cannot be parsed nothing is plotted.
C6_PlotIsReversedFiltered ==
  (pc = "done" /\ HasSeries) =>
    LET series == data.v["data"]
        idx == PlottedIndices(series, Len(series))
    IN IF exc # NoExc THEN out = <<>>
       ELSE /\ Len(out) = 1
            /\ out[1].kind = "plot"
            /\ Len(out[1].rows[1]) = Len(idx)
            /\ Len(out[1].rows[2]) = Len(idx)
            /\ \A i \in 1..Len(idx) :
                 /\ out[1].rows[1][i] = strptime(series[idx[i]]["date"])
                 /\ out[1].rows[2][i] = float(series[idx[i]]["value"])

\* the series (2024-03-01, 9.5), (a date, "."), (2024-01-01, 9.0)
C6_Witness ==
  /\ pc = "done"
  /\ HasSeries
  /\ Len(data.v["data"]) = 3
  /\ data.v["data"][1] = [k \in {"date", "value"} |-> IF k = "date" THEN "2024-03-01" ELSE "9.5"]
  /\ DOMAIN data.v["data"][2] = {"date", "value"}
  /\ data.v["data"][2]["value"] = "."
  /\ data.v["data"][3] = [k \in {"date", "value"} |-> IF k = "date" THEN "2024-01-01" ELSE "9.0"]
  /\ out = <<Plot(<<(<<(<<2024, 1, 1>>), (<<2024, 3, 1>>)>>), (<<90, 95>>)>>)>>

-----------------------------------------------------------------------------
(* The other accessors *)

get_market_news_wrong_function(o) ==
  _make_alpha_vantage_request("TOP_GAINERS_LOSERS", EmptyDict, o)

get_top_gainers_losers(o) == _make_alpha_vantage_request("TOP_GAINERS_LOSERS", EmptyDict, o)
get_market_news(o) == _make_alpha_vantage_request("NEWS_SENTIMENT", EmptyDict, o)
get_copper_price(o) ==
  _make_alpha_vantage_request("COPPER", [k \in {"interval"} |-> "monthly"], o)

-----------------------------------------------------------------------------
(* The dispatcher: main *)

Paths == <<"symbol", "top", "news", "copper">>
PathFunction == [symbol |-> "GLOBAL_QUOTE", top |-> "TOP_GAINERS_LOSERS",
                 news |-> "NEWS_SENTIMENT", copper |-> "COPPER"]

NotCalled == [t |-> "not called"]
ExitStatus(n) == [t |-> "exit", v |-> n]

StockPrice == "Current Stock Price"
NoStockPrice == "Could not retrieve stock price"
NoCopperData == "Could not retrieve copper price data."
Usage == "Please provide either a stock symbol (-s), use the --top (-t) option"

\* what the server may answer in one run of main
NoticeBody == [k \in {"Information"} |-> SampleNotice]

MainOutcomes(bodies) ==
  { NoNet,
    [transport |-> FALSE, status |-> 503, valid |-> TRUE, data |-> EmptyDict],
    [transport |-> FALSE, status |-> 200, valid |-> FALSE, data |-> EmptyDict],
    [transport |-> FALSE, status |-> 200, valid |-> TRUE, data |-> NoticeBody] }
  \cup {[transport |-> FALSE, status |-> 200, valid |-> TRUE, data |-> b] : b \in bodies}

MainQuoteBodies ==
  {[k \in {"Global Quote"} |-> q] : q \in {SampleQuote, EmptyDict}}

FullRecord == [k \in {"ticker", "price"} |-> IF k = "ticker" THEN "IBM" ELSE "189.95"]
ShortRecord == [k \in {"ticker"} |-> "AAPL"]

MainMoversBodies ==
  { EmptyDict,
    [k \in {"top_gainers", "top_losers", "most_actively_traded"} |-> <<FullRecord>>],
    [k \in {"top_gainers", "top_losers"} |->
       IF k = "top_gainers" THEN <<FullRecord, ShortRecord>> ELSE <<>>],
    [k \in {"top_losers"} |-> <<ShortRecord, FullRecord>>] }

MainNewsBodies == NewsBodies(1)

MainCopperBodies ==
  { EmptyDict,
    [k \in {"data"} |-> <<>>],
    [k \in {"data"} |->
       << [k2 \in {"date", "value"} |-> IF k2 = "date" THEN "2024-03-01" ELSE "9.5"],
          [k2 \in {"date", "value"} |-> IF k2 = "date" THEN "2024-01-01" ELSE "."] >>],
    [k \in {"data"} |->
       << [k2 \in {"date", "value"} |-> IF k2 = "date" THEN "03/01/2024" ELSE "9.5"] >>] }

InitMain ==
  /\ pc = "symbol"
  /\ args \in [symbol : {PyNone, PyStr(""), PyStr("IBM")},
               top : BOOLEAN, news : BOOLEAN, copper : BOOLEAN]
  /\ net = NoNet
  /\ data = [p \in {Paths[i] : i \in 1..4} |-> NotCalled]
  /\ ret = PyNone
  /\ exc = NoExc
  /\ out = <<>>
  /\ reqs = <<>>
  /\ executed_action = FALSE

\* lines 168-174
MainSymbol ==
  /\ pc = "symbol"
  /\ IF Truthy(args.symbol)
     THEN \E o \in MainOutcomes(MainQuoteBodies) :
            LET r == get_stock_price(args.symbol.v, o)
                shown == IF Truthy(r.ret)
                         THEN Printed(StockPrice, <<args.symbol.v, r.ret.v>>)
                         ELSE Printed(NoStockPrice, <<args.symbol.v>>)
            IN /\ net' = o
               /\ executed_action' = TRUE
               /\ data' = [data EXCEPT
                             !.symbol = _make_alpha_vantage_request("GLOBAL_QUOTE", EmptyDict, o).ret]
               /\ out' = out \o <<GetEvent("GLOBAL_QUOTE")>> \o r.out \o <<shown>>
               /\ reqs' = reqs \o r.reqs
     ELSE UNCHANGED <<net, executed_action, data, out, reqs>>
  /\ pc' = "top"
  /\ UNCHANGED <<args, ret, exc>>

\* lines 176-179
MainTop ==
  /\ pc = "top"
  /\ IF args.top
     THEN \E o \in MainOutcomes(MainMoversBodies) :
            LET g == get_top_gainers_losers(o)
                r == display_gainers_losers_table(g.ret)
            IN /\ net' = o
               /\ executed_action' = TRUE
               /\ data' = [data EXCEPT !.top = g.ret]
               /\ out' = out \o <<GetEvent("TOP_GAINERS_LOSERS")>> \o g.out \o r.out
               /\ reqs' = reqs \o g.reqs
               /\ exc' = r.exc
               /\ IF r.exc = NoExc
                  THEN pc' = "news" /\ ret' = ret
                  ELSE pc' = "exit" /\ ret' = ExitStatus(1)
     ELSE /\ pc' = "news"
          /\ UNCHANGED <<net, executed_action, data, out, reqs, exc, ret>>
  /\ UNCHANGED args

\* lines 181-184
MainNews ==
  /\ pc = "news"
  /\ IF args.news
     THEN \E o \in MainOutcomes(MainNewsBodies) :
            LET g == get_market_news(o)
                r == display_market_news(g.ret)
            IN /\ net' = o
               /\ executed_action' = TRUE
               /\ data' = [data EXCEPT !.news = g.ret]
               /\ out' = out \o <<GetEvent("NEWS_SENTIMENT")>> \o g.out \o r.out
               /\ reqs' = reqs \o g.reqs
               /\ exc' = r.exc
               /\ IF r.exc = NoExc
                  THEN pc' = "copper" /\ ret' = ret
                  ELSE pc' = "exit" /\ ret' = ExitStatus(1)
     ELSE /\ pc' = "copper"
          /\ UNCHANGED <<net, executed_action, data, out, reqs, exc, ret>>
  /\ UNCHANGED args

\* lines 186-192
MainCopper ==
  /\ pc = "copper"
  /\ IF args.copper
     THEN \E o \in MainOutcomes(MainCopperBodies) :
            LET g == get_copper_price(o)
                r == IF Truthy(g.ret) /\ "data" \in DOMAIN g.ret.v
                     THEN plot_copper_price(g.ret)
                     ELSE Done(<<Msg(NoCopperData)>>)
            IN /\ net' = o
               /\ executed_action' = TRUE
               /\ data' = [data EXCEPT !.copper = g.ret]
               /\ out' = out \o <<GetEvent("COPPER")>> \o g.out \o r.out
               /\ reqs' = reqs \o g.reqs
               /\ exc' = r.exc
               /\ IF r.exc = NoExc
                  THEN pc' = "usage" /\ ret' = ret
                  ELSE pc' = "exit" /\ ret' = ExitStatus(1)
     ELSE /\ pc' = "usage"
          /\ UNCHANGED <<net, executed_action, data, out, reqs, exc, ret>>
  /\ UNCHANGED args

\* lines 194-195, and the normal end of the process
MainUsage ==
  /\ pc = "usage"
  /\ out' = IF ~executed_action THEN Append(out, Msg(Usage)) ELSE out
  /\ pc' = "exit"
  /\ ret' = ExitStatus(0)
  /\ UNCHANGED <<args, net, data, exc, reqs, executed_action>>

NextMain == MainSymbol \/ MainTop \/ MainNews \/ MainCopper \/ MainUsage

SpecMain == InitMain /\ [][NextMain]_vars

FlagGiven(p) == IF p = "symbol" THEN args.symbol # PyNone ELSE args[p]
FlagTaken(p) == IF p = "symbol" THEN Truthy(args.symbol) ELSE args[p]

PathNotice == [symbol |-> NoStockPrice, top |-> MoversError,
               news |-> NoNews, copper |-> NoCopperData]

Called(p) == data[p] # NotCalled

\* the path main was on when an exception left it: the last one called
RaisedOn(i) ==
  /\ exc # NoExc
  /\ Called(Paths[i])
  /\ \A j \in (i + 1)..4 : ~Called(Paths[j])

\* C7 as stated: on each of the four paths an empty gateway result is
\* "nothing to show": the path prints its notice and raises nothing, the
\* flags after it are still processed and the process exits with status 0;
\* an exception can leave main only from the movers path, on a record that
\* lacks a column of the first record.
C7_Original ==
  /\ \A i \in 1..4 :
       data[Paths[i]] = PyNone =>
         /\ ~RaisedOn(i)
         /\ Emitted("print", PathNotice[Paths[i]])
         /\ (pc = "exit" /\ exc = NoExc) =>
              /\ ret = ExitStatus(0)
              /\ \A j \in (i + 1)..4 : FlagTaken(Paths[j]) => Called(Paths[j])
  /\ (pc = "exit" /\ exc # NoExc) =>
       /\ RaisedOn(2)
       /\ exc = "KeyError"
       /\ \E k \in 1..3 : Malformed(data.top.v, Categories[k])

RequestedFunctions == [i \in 1..Len(reqs) |-> reqs[i].function]

SelectedBy(flag(_)) ==
  LET chosen == SelectSeq(Paths, flag) IN [i \in 1..Len(chosen) |-> PathFunction[chosen[i]]]

IsPrefix(s, t) == Len(s) <= Len(t) /\ s = SubSeq(t, 1, Len(s))

DisplayEvents ==
  [GLOBAL_QUOTE |-> {StockPrice, NoStockPrice},
   TOP_GAINERS_LOSERS |-> {MoversError, NoGainers, "Top Gainers"},
   NEWS_SENTIMENT |-> {NoNews, NewsTitle},
   COPPER |-> {NoCopperData, NoCopper, "Global Copper Price (Monthly)"}]

GetPositions == {i \in 1..Len(out) : out[i].kind = "get"}

\* the display step of the request logged at i comes before the next request
DisplayedAfter(i) ==
  \E j \in (i + 1)..Len(out) :
    /\ out[j].ev \in DisplayEvents[out[i].ev]
    /\ \A k \in (i + 1)..j : out[k].kind # "get"

\* C8 as stated: the requests of one run are exactly the functions selected
\* by the flags given, in the order symbol, top, news, copper, one each,
\* each followed by its display step before the next request; the usage
\* hint is printed exactly when no flag is given, and then nothing is
\* requested.
C8_Original ==
  pc = "exit" =>
    /\ RequestedFunctions = SelectedBy(FlagGiven)
    /\ \A i \in GetPositions : DisplayedAfter(i)
    /\ Emitted("print", Usage) <=> (SelectedBy(FlagGiven) = <<>>)
    /\ (SelectedBy(FlagGiven) = <<>>) => reqs = <<>>

\* C8 amended: with the symbol flag counting only when its value is not
\* empty, the requests of one run are a prefix of the functions selected by
\* the flags, in the order symbol, top, news, copper, one each, and all of
\* them when no exception leaves main; every request that is followed by
\* another one, or by the normal end of main, has its display step right
\* after it; the usage hint is printed exactly when no flag counts, and then
\* nothing is requested.
C8_RequestsFollowFlags ==
  pc = "exit" =>
    /\ IsPrefix(RequestedFunctions, SelectedBy(FlagTaken))
    /\ exc = NoExc => RequestedFunctions = SelectedBy(FlagTaken)
    /\ Len(out) = Len(reqs) + Cardinality({i \in 1..Len(out) : out[i].kind # "get"})
    /\ \A i \in GetPositions :
         (exc = NoExc \/ \E j \in GetPositions : j > i) => DisplayedAfter(i)
    /\ Emitted("print", Usage) <=> (SelectedBy(FlagTaken) = <<>>)
    /\ (SelectedBy(FlagTaken) = <<>>) => reqs = <<>>

C8_Witness ==
  /\ pc = "exit"
  /\ exc = NoExc
  /\ \A i \in 1..4 : FlagTaken(Paths[i])
  /\ RequestedFunctions = <<"GLOBAL_QUOTE", "TOP_GAINERS_LOSERS", "NEWS_SENTIMENT", "COPPER">>
  /\ Emitted("table", "Top Gainers")
  /\ Emitted("plot", "Global Copper Price (Monthly)")
  /\ ~Emitted("print", Usage)

====
